---------------------------- MODULE Spec2Model ----------------------------
(***************************************************************************)
(* The HTTP firmware download client of                                    *)
(* subsys/net/lib/dfu_client/src/http_dfu_client.c: the session object     *)
(* (struct dfu_client_object), its public operations (init, connect,       *)
(* download, process, disconnect), the helpers they call (httpc_connect,   *)
(* rxdata_flush, fragment_request), and the environment they act on: the   *)
(* sockets, the server that answers range requests, the bytes that arrive, *)
(* and the application's event handler.                                    *)
(*                                                                         *)
(* A response is kept as the sequence of lexical pieces of its header      *)
(* (header names, digits, line ends) followed by a count of payload bytes, *)
(* so that strstr() and atoi() act on whatever prefix has arrived.         *)
(***************************************************************************)
EXTENDS Integers, Sequences, FiniteSets, TLC

\* ------------------------------------------------------------------------
\* Bounds of the model.

\* Sockets created in one run; no call that would create another is tried.
MaxConns == 2

\* Largest firmware size (bytes) tried with the small fragment size.
MaxSmallFirmware == 3

\* Full fragments past the end of the image that a deviating server still
\* serves.
MaxOverrun == 1

\* ------------------------------------------------------------------------
\* enum dfu_client_status and enum dfu_client_evt.

DFU_CLIENT_STATUS_IDLE == "IDLE"
DFU_CLIENT_STATUS_CONNECTED == "CONNECTED"
DFU_CLIENT_STATUS_DOWNLOAD_INPROGRESS == "DOWNLOAD_INPROGRESS"
DFU_CLIENT_STATUS_DOWNLOAD_COMPLETE == "DOWNLOAD_COMPLETE"
DFU_CLIENT_STATUS_HALTED == "HALTED"
DFU_CLIENT_ERROR == "ERROR"

DFU_CLIENT_EVT_ERROR == "EVT_ERROR"
DFU_CLIENT_EVT_DOWNLOAD_FRAG == "EVT_DOWNLOAD_FRAG"
DFU_CLIENT_EVT_DOWNLOAD_DONE == "EVT_DOWNLOAD_DONE"

\* ------------------------------------------------------------------------
\* Build configurations and firmware images tried: the triple
\* (CONFIG_NRF_DFU_HTTP_MAX_FRAGMENT_SIZE, size of the image on the server,
\* CONFIG_NRF_DFU_HTTP_MAX_REQUEST_SIZE).  The second is the documented
\* 1024-byte configuration with a 2500-byte image; the first takes every size
\* up to MaxSmallFirmware.  In these the request buffer holds every request;
\* in TightSetup it holds none.

SmallFragment == 2

\* A request buffer with room to spare, and one shorter than any request.
RoomyRequestBuffer == 256

TightRequestBuffer == 80

DocSetup == [frag |-> 1024, size |-> 2500, req |-> RoomyRequestBuffer]

TightSetup == [frag |-> SmallFragment, size |-> 1, req |-> TightRequestBuffer]

Setups ==
    {[frag |-> SmallFragment, size |-> f, req |-> RoomyRequestBuffer] :
        f \in 1..MaxSmallFirmware}
        \cup {DocSetup}

\* The setups tried in an environment: a build whose buffer cannot hold its
\* own requests is not part of a well-behaved one.
SetupsOf(env) == IF env = "any" THEN Setups \cup {TightSetup} ELSE Setups

\* Lengths of dfu->host and dfu->resource, in characters.
HostLen == 11

ResourceLen == 9

VARIABLES
    fd,               \* dfu->fd: the connection of the session, -1 when none
    status,           \* dfu->status
    download_size,    \* dfu->download_size
    firmware_size,    \* dfu->firmware_size, -1 while not learnt
    fragment_size,    \* dfu->fragment_size
    open,             \* sockets the engine opened and has not closed
    linked,           \* the session's socket, while its connection to the server is live
    next_conn,        \* the next socket to be created
    inflight,         \* Range start of the request the server has not answered, -1 when none
    response,         \* the response on the session's connection, NoResponse when none
    rx_hdr,           \* header pieces of it that have arrived and are unread
    rx_pay,           \* payload bytes of it that have arrived and are unread
    last,             \* the operation that acted last: what it returned, the events
                      \* it raised, the requests it passed to send(), the sockets
                      \* it opened and those it closed, what its recv() found
    history,          \* the events of the download so far (kept for a well-behaved
                      \* environment only)
    started_at,       \* download_size when dfu_client_download() was last accepted
    environment,      \* "any", "well_behaved" or "answering": see Init,
                      \* InitWellBehaved and InitAnswering
    MAX_FRAGMENT_SIZE,\* CONFIG_NRF_DFU_HTTP_MAX_FRAGMENT_SIZE of this build
    MAX_REQUEST_SIZE, \* CONFIG_NRF_DFU_HTTP_MAX_REQUEST_SIZE of this build
    image_size,       \* size of the firmware image the server holds
    faulted           \* the program walked off the resolver's result array

vars ==
    <<fd, status, download_size, firmware_size, fragment_size, open, linked,
      next_conn, inflight, response, rx_hdr, rx_pay, last, history,
      started_at, environment, MAX_FRAGMENT_SIZE, MAX_REQUEST_SIZE,
      image_size, faulted>>

NoResponse == [kind |-> "none"]

\* ------------------------------------------------------------------------
\* Text of a response.

Min(a, b) == IF a < b THEN a ELSE b

Max(a, b) == IF a > b THEN a ELSE b

DigitChars == <<"0", "1", "2", "3", "4", "5", "6", "7", "8", "9">>

IsDigit(c) == \E i \in 1..10 : DigitChars[i] = c

DigitValue(c) == (CHOOSE i \in 1..10 : DigitChars[i] = c) - 1

\* The decimal digits of n >= 0, as the server prints them.
RECURSIVE Digits(_)
Digits(n) ==
    IF n < 10 THEN <<DigitChars[n + 1]>>
    ELSE Append(Digits(n \div 10), DigitChars[(n % 10) + 1])

\* atoi(): the value of the leading run of digits of a text, 0 when there is none.
RECURSIVE AtoiFrom(_, _, _)
AtoiFrom(text, i, acc) ==
    IF i > Len(text) \/ ~IsDigit(text[i]) THEN acc
    ELSE AtoiFrom(text, i + 1, acc * 10 + DigitValue(text[i]))

atoi(text) == AtoiFrom(text, 1, 0)

\* The part of a text after its first i pieces.
Tail_from(text, i) == SubSeq(text, i + 1, Len(text))

\* strstr() for one piece: the position of its first occurrence, 0 when absent.
strstr(text, piece) ==
    IF \E i \in 1..Len(text) : text[i] = piece
    THEN CHOOSE i \in 1..Len(text) :
             text[i] = piece /\ \A j \in 1..(i - 1) : text[j] # piece
    ELSE 0

\* strstr(buf, "\r\n\r\n"): the position of the second of two line ends in a
\* row, 0 when the blank line has not arrived.
header_end(text) ==
    IF \E i \in 1..(Len(text) - 1) : text[i] = "CRLF" /\ text[i + 1] = "CRLF"
    THEN 1 + CHOOSE i \in 1..(Len(text) - 1) :
             /\ text[i] = "CRLF" /\ text[i + 1] = "CRLF"
             /\ \A j \in 1..(i - 1) : ~(text[j] = "CRLF" /\ text[j + 1] = "CRLF")
    ELSE 0

ContentRangeLine(r) ==
    <<"Content-Range: bytes", " ", "start-end", "/">> \o Digits(r.total) \o <<"CRLF">>

ContentLengthLine(r) == <<"Content-Length: ">> \o Digits(r.clen) \o <<"CRLF">>

ConnectionLine(r) ==
    IF r.conn = "absent" THEN <<>> ELSE <<"Connection: ", r.conn, "CRLF">>

\* The header of a response, piece by piece, up to and including the blank line.
HeaderText(r) ==
    <<"HTTP/1.1 206", "CRLF">>
        \o (IF r.order = "range_first"
            THEN ContentRangeLine(r) \o ContentLengthLine(r)
            ELSE ContentLengthLine(r) \o ContentRangeLine(r))
        \o ConnectionLine(r)
        \o <<"CRLF">>


\* ------------------------------------------------------------------------
\* The session and its environment as one record, so that the helpers can be
\* composed the way the C functions call each other.  Every helper yields the
\* set of states it can leave behind, one per outcome of the calls it makes
\* into the environment (recv, send, socket, connect, the event handler).

State ==
    [fd |-> fd, status |-> status, download_size |-> download_size,
     firmware_size |-> firmware_size, fragment_size |-> fragment_size,
     open |-> open, linked |-> linked, next_conn |-> next_conn,
     inflight |-> inflight, response |-> response, rx_hdr |-> rx_hdr,
     rx_pay |-> rx_pay, faulted |-> faulted, environment |-> environment,
     MAX_REQUEST_SIZE |-> MAX_REQUEST_SIZE,
     events |-> <<>>, requests |-> <<>>, opened |-> {}, closed |-> {},
     recv |-> "none"]

Becomes(s) ==
    /\ fd' = s.fd
    /\ status' = s.status
    /\ download_size' = s.download_size
    /\ firmware_size' = s.firmware_size
    /\ fragment_size' = s.fragment_size
    /\ open' = s.open
    /\ linked' = s.linked
    /\ next_conn' = s.next_conn
    /\ inflight' = s.inflight
    /\ response' = s.response
    /\ rx_hdr' = s.rx_hdr
    /\ rx_pay' = s.rx_pay
    /\ faulted' = s.faulted

\* dfu->callback(dfu, evt, code), answered with ret by the application.
callback(s, evt, code, ret) ==
    [s EXCEPT !.events =
        Append(@, [evt |-> evt, code |-> code, size |-> s.fragment_size,
                   ret |-> ret])]

\* close(fd): the socket is gone, and with it whatever was on the wire.
close(s, sock) ==
    [s EXCEPT !.open = @ \ {sock}, !.linked = @ \ {sock},
              !.closed = @ \cup {sock},
              !.inflight = IF sock = s.fd THEN -1 ELSE @,
              !.response = IF sock = s.fd THEN NoResponse ELSE @,
              !.rx_hdr = IF sock = s.fd THEN 0 ELSE @,
              !.rx_pay = IF sock = s.fd THEN 0 ELSE @]

\* ------------------------------------------------------------------------
\* httpc_connect().  What the network can do to one call: getaddrinfo()
\* succeeds or not and yields an array of candidates, socket() succeeds or
\* not, each connect() succeeds or is refused; and what lies behind the last
\* candidate, which `addr++` reaches whenever no connect() succeeded: memory
\* that reads as the end of the list, or memory whose use stops the program.

Candidates == {"inet_ok", "inet_refused", "inet6"}

Resolutions ==
    {<<a>> : a \in Candidates} \cup {<<a, b>> : a \in Candidates, b \in Candidates}

Reaches(addrs) == \E i \in 1..Len(addrs) : addrs[i] = "inet_ok"

\* A network that works: the name resolves and some AF_INET candidate accepts.
WorkingNet ==
    {[gai |-> TRUE, addrs |-> a, sock |-> TRUE, past_end |-> "reads_as_end"] :
        a \in {r \in Resolutions : Reaches(r)}}

\* Every way a call can go; an input that cannot matter is tried once.
AnyNet ==
    WorkingNet
      \cup {[gai |-> FALSE, addrs |-> <<>>, sock |-> TRUE, past_end |-> "reads_as_end"],
            [gai |-> TRUE, addrs |-> <<>>, sock |-> TRUE, past_end |-> "reads_as_end"],
            [gai |-> TRUE, addrs |-> <<"inet_ok">>, sock |-> FALSE,
             past_end |-> "reads_as_end"]}
      \cup {[gai |-> TRUE, addrs |-> a, sock |-> TRUE, past_end |-> p] :
              a \in {r \in Resolutions : ~Reaches(r)},
              p \in {"reads_as_end", "faults"}}

\* For a session whose requests are all answered: a network that works, or
\* a name that no longer resolves when the engine reconnects.
AnsweringNet ==
    WorkingNet
      \cup {[gai |-> FALSE, addrs |-> <<>>, sock |-> TRUE, past_end |-> "reads_as_end"]}

\* Whether a call with this input creates a socket.
MakesSocket(net) == net.gai /\ net.addrs # <<>> /\ net.sock

\* The inputs tried in state s: once MaxConns sockets have been created, only
\* those that create no further one.
NetInputs(s) ==
    {net \in (IF s.environment = "well_behaved" THEN WorkingNet
              ELSE IF s.environment = "answering" THEN AnsweringNet
              ELSE AnyNet) :
        MakesSocket(net) => s.next_conn <= MaxConns}

\* The value of rc when the walk over the candidates ends without a break:
\* getaddrinfo()'s 0 unless a connect() of an AF_INET candidate was refused
\* after it.
RECURSIVE rc_after(_, _, _)
rc_after(addrs, i, rc) ==
    IF i > Len(addrs) THEN rc
    ELSE rc_after(addrs, i + 1, IF addrs[i] = "inet_refused" THEN -1 ELSE rc)

\* Yields the state left behind and the value returned.  A socket that is
\* closed again at line 85 leaves no trace: its number is free for the next.
httpc_connect(s, net) ==
    IF ~net.gai \/ net.addrs = <<>> THEN [st |-> s, fd |-> -1]
    ELSE IF ~net.sock THEN [st |-> s, fd |-> -1]
    ELSE
        LET sock == s.next_conn
            made == [s EXCEPT !.open = @ \cup {sock}, !.next_conn = @ + 1,
                              !.opened = @ \cup {sock}]
        IN  IF Reaches(net.addrs)
            THEN [st |-> [made EXCEPT !.linked = @ \cup {sock}], fd |-> sock]
            ELSE IF net.past_end = "faults"
            THEN [st |-> [made EXCEPT !.faulted = TRUE], fd |-> -1]
            ELSE IF rc_after(net.addrs, 1, 0) < 0
            THEN [st |-> s, fd |-> -1]
            ELSE [st |-> made, fd |-> sock]


\* ------------------------------------------------------------------------
\* The socket calls of the engine.

\* Outcomes of one recv() on the session's socket: data (or EAGAIN when none
\* has arrived), an error other than EAGAIN, or 0 for a connection the peer
\* closed after everything it sent was read.  A socket that never got, or has
\* lost, its connection only fails.
RecvOutcomes(s) ==
    IF s.fd \notin s.linked THEN {"error"}
    ELSE IF s.environment # "any" THEN {"data"}
    ELSE {"data", "error"} \cup (IF s.rx_hdr = 0 THEN {"closed"} ELSE {})

\* The connection of the session is lost to an error or to the peer.
unlink(s) == [s EXCEPT !.linked = @ \ {s.fd}]

\* The bytes that have arrived, as dfu->resp_buf holds them after recv():
\* the header pieces, then len - (p_payload - resp_buf) payload bytes.
resp_buf(s) ==
    IF s.response.kind = "none" THEN <<>>
    ELSE SubSeq(HeaderText(s.response), 1, s.rx_hdr)

\* A consuming recv(): what has arrived is taken off the socket.
consume(s) ==
    IF s.rx_hdr = 0 THEN s
    ELSE [s EXCEPT !.response = NoResponse, !.rx_hdr = 0, !.rx_pay = 0]

\* Whether the application handled an event: 0, or anything else.
HandlerReturns(s) == IF s.environment = "well_behaved" THEN {0} ELSE {0, -1}

\* ------------------------------------------------------------------------
\* rxdata_flush().

rxdata_flush(s) ==
    IF s.status = DFU_CLIENT_STATUS_IDLE THEN {s}
    ELSE
        {IF io = "error"
         THEN callback(unlink(s), DFU_CLIENT_EVT_ERROR, "errno", 0)
         ELSE IF io = "closed" THEN unlink(s)
         ELSE consume(s) : io \in RecvOutcomes(s)}

\* ------------------------------------------------------------------------
\* fragment_request().

\* snprintf(req_buf, MAX_REQUEST_SIZE, REQUEST_TEMPLATE, resource, host,
\* download_size, download_size + MAX_FRAGMENT_SIZE - 1): the number of
\* characters the formatted request has, whether or not they fit.
snprintf_request(s, frag) ==
    65 + ResourceLen + HostLen + Len(Digits(s.download_size))
       + Len(Digits(s.download_size + frag - 1))

\* send(fd, req_buf, request_len, 0): request_len when the bytes were taken,
\* -1 when not; only a socket with a live connection can take them.
SendOutcomes(s) ==
    IF s.fd \notin s.linked THEN {"failed"}
    ELSE IF s.environment # "any" THEN {"sent"}
    ELSE {"sent", "failed"}

\* Whether req_buf holds the whole formatted request and its terminating
\* NUL.  When it does not, snprintf() stores its first MAX_REQUEST_SIZE - 1
\* characters, which are not a request: the end of the Range field, at least
\* the blank line, is cut off.
fits(s, frag) == snprintf_request(s, frag) < s.MAX_REQUEST_SIZE

\* Line 147: request_len bytes starting at req_buf are passed to send().  The
\* server can answer only what arrived whole.
send_request(s, frag, how) ==
    LET req == [start |-> s.download_size,
                end |-> s.download_size + frag - 1,
                conn |-> s.fd, sent |-> (how = "sent"),
                whole |-> fits(s, frag)]
        logged == [s EXCEPT !.requests = Append(@, req)]
    IN  IF how = "sent"
        THEN [st |-> [logged EXCEPT
                        !.inflight = IF fits(s, frag) THEN s.download_size
                                     ELSE -1],
              ret |-> snprintf_request(s, frag)]
        ELSE [st |-> logged, ret |-> -1]

\* Lines 136-151: format the request, mark the download in progress, send.
format_and_send(s, frag) ==
    IF snprintf_request(s, frag) > 0
    THEN {send_request(
              [s EXCEPT !.status = DFU_CLIENT_STATUS_DOWNLOAD_INPROGRESS],
              frag, how) : how \in SendOutcomes(s)}
    ELSE {[st |-> s, ret |-> -1]}

\* Lines 125-134: close the connection and open a new one.
reconnect(s, frag, net) ==
    LET shut == [close(s, s.fd) EXCEPT !.fd = -1]
        got  == httpc_connect(shut, net)
        now  == [got.st EXCEPT !.fd = got.fd]
    IN  IF got.st.faulted THEN {[st |-> got.st, ret |-> -1]}
        ELSE IF got.fd < 0
        THEN {[st |-> callback(now, DFU_CLIENT_EVT_ERROR, "ECONNRESET", 0),
               ret |-> -1]}
        ELSE format_and_send(now, frag)

\* fragment_request with the reconnection of lines 125-134 left out.
fragment_request_same_conn(s, frag, flush, connnection_close) ==
    UNION {format_and_send(t, frag)
           : t \in (IF flush THEN rxdata_flush(s) ELSE {s})}

\* Yields, per outcome, the state left behind and the value returned.
fragment_request(s, frag, flush, connnection_close) ==
    UNION {IF connnection_close
           THEN UNION {reconnect(t, frag, net) : net \in NetInputs(t)}
           ELSE format_and_send(t, frag)
           : t \in (IF flush THEN rxdata_flush(s) ELSE {s})}

States_of(outcomes) == {o.st : o \in outcomes}


\* ------------------------------------------------------------------------
\* dfu_client_process(): the parser.

\* Lines 249-265: the number after the first "/" that follows
\* "Content-Range: bytes", 0 when no "/" has arrived.
total_size_of(buf) ==
    LET rest  == Tail_from(buf, strstr(buf, "Content-Range: bytes"))
        slash == strstr(rest, "/")
    IN  IF slash = 0 THEN 0 ELSE atoi(Tail_from(rest, slash))

\* Lines 271-275: the number after "Content-Length: ".
payload_size_of(buf) == atoi(Tail_from(buf, strstr(buf, "Content-Length: ")))

\* Lines 313-322: "close" somewhere after "Connection: ".
connection_resume_of(buf) ==
    LET at == strstr(buf, "Connection: ")
    IN  at # 0 /\ strstr(Tail_from(buf, at), "close") # 0

\* Lines 283-294: learn the firmware size, or find that it changed.
check_total_size(s, total_size) ==
    IF total_size = 0 THEN s
    ELSE IF s.firmware_size = -1 THEN [s EXCEPT !.firmware_size = total_size]
    ELSE IF s.firmware_size # total_size
    THEN callback([s EXCEPT !.status = DFU_CLIENT_ERROR],
                  DFU_CLIENT_EVT_ERROR, "EFAULT", 0)
    ELSE s

\* fragment_allowed without the test of lines 297-298.
fragment_allowed_any(s, frag, payload_size) == payload_size >= 0

\* Lines 297-298: a full sized fragment, or the one that ends the firmware.
fragment_allowed(s, frag, payload_size) ==
    \/ payload_size = frag
    \/ s.download_size + payload_size = s.firmware_size

\* download_done with the rollback of line 337 left out.
download_done_no_rollback(s, frag, payload_size, connection_resume) ==
    UNION {IF ret # 0
           THEN States_of(fragment_request(
                    callback(s, DFU_CLIENT_EVT_DOWNLOAD_DONE, 0, ret),
                    frag, TRUE, connection_resume))
           ELSE rxdata_flush(callback(s, DFU_CLIENT_EVT_DOWNLOAD_DONE, 0, ret))
           : ret \in HandlerReturns(s)}

\* Lines 336-341: the download is complete and the application is told;
\* when it refuses, the fragment is taken back and requested again.
download_done(s, frag, payload_size, connection_resume) ==
    UNION {IF ret # 0
           THEN States_of(fragment_request(
                    [callback(s, DFU_CLIENT_EVT_DOWNLOAD_DONE, 0, ret)
                        EXCEPT !.download_size = @ - payload_size],
                    frag, TRUE, connection_resume))
           ELSE rxdata_flush(callback(s, DFU_CLIENT_EVT_DOWNLOAD_DONE, 0, ret))
           : ret \in HandlerReturns(s)}

\* fragment_accepted that counts every fragment as a full one.
fragment_accepted_as_full(s, frag, payload_size, connection_resume) ==
    LET t == [s EXCEPT !.download_size = @ + frag]
    IN  IF t.download_size = t.firmware_size
        THEN download_done(
                 [t EXCEPT !.status = DFU_CLIENT_STATUS_DOWNLOAD_COMPLETE],
                 frag, payload_size, connection_resume)
        ELSE States_of(fragment_request(t, frag, TRUE, connection_resume))

\* Lines 332-344: the application took the fragment.
fragment_accepted(s, frag, payload_size, connection_resume) ==
    LET t == [s EXCEPT !.download_size = @ + payload_size]
    IN  IF t.download_size = t.firmware_size
        THEN download_done(
                 [t EXCEPT !.status = DFU_CLIENT_STATUS_DOWNLOAD_COMPLETE],
                 frag, payload_size, connection_resume)
        ELSE States_of(fragment_request(t, frag, TRUE, connection_resume))

\* deliver_fragment with the refused fragment requested again, as after a
\* refused completion.
deliver_fragment_retry(s, frag, payload_size, connection_resume) ==
    LET t == [s EXCEPT !.fragment_size = payload_size]
    IN  UNION {IF ret = 0
               THEN fragment_accepted(
                        callback(t, DFU_CLIENT_EVT_DOWNLOAD_FRAG, 0, ret),
                        frag, payload_size, connection_resume)
               ELSE States_of(fragment_request(
                        [callback(t, DFU_CLIENT_EVT_DOWNLOAD_FRAG, 0, ret)
                            EXCEPT !.status = DFU_CLIENT_STATUS_HALTED],
                        frag, TRUE, connection_resume))
               : ret \in HandlerReturns(s)}

\* Lines 327-347: hand the fragment to the application.
deliver_fragment(s, frag, payload_size, connection_resume) ==
    LET t == [s EXCEPT !.fragment_size = payload_size]
    IN  UNION {IF ret = 0
               THEN fragment_accepted(
                        callback(t, DFU_CLIENT_EVT_DOWNLOAD_FRAG, 0, ret),
                        frag, payload_size, connection_resume)
               ELSE {[callback(t, DFU_CLIENT_EVT_DOWNLOAD_FRAG, 0, ret)
                         EXCEPT !.status = DFU_CLIENT_STATUS_HALTED]}
               : ret \in HandlerReturns(s)}

\* parse_response without the wait for the payload of lines 303-309.
parse_response_no_wait(s, frag) ==
    LET buf == resp_buf(s)
    IN  IF strstr(buf, "Content-Range: bytes") = 0 THEN {s}
        ELSE IF strstr(buf, "Content-Length: ") = 0 THEN {s}
        ELSE
            LET payload_size == payload_size_of(buf)
                t == check_total_size(s, total_size_of(buf))
            IN  IF ~fragment_allowed(t, frag, payload_size) THEN {t}
                ELSE IF header_end(buf) = 0 THEN {t}
                ELSE deliver_fragment(t, frag, payload_size,
                                      connection_resume_of(buf))

\* Lines 244-349: what is done with the bytes that recv() peeked at.
parse_response(s, frag) ==
    LET buf == resp_buf(s)
    IN  IF strstr(buf, "Content-Range: bytes") = 0 THEN {s}
        ELSE IF strstr(buf, "Content-Length: ") = 0 THEN {s}
        ELSE
            LET payload_size == payload_size_of(buf)
                t == check_total_size(s, total_size_of(buf))
            IN  IF ~fragment_allowed(t, frag, payload_size) THEN {t}
                ELSE IF header_end(buf) = 0 THEN {t}
                ELSE IF payload_size # t.rx_pay THEN {t}
                ELSE deliver_fragment(t, frag, payload_size,
                                      connection_resume_of(buf))

\* peek that takes a connection the peer closed for one without data yet.
peek_close_is_no_data(s, frag, io) ==
    IF io = "error"
    THEN {callback([unlink(s) EXCEPT !.status = DFU_CLIENT_ERROR,
                                     !.recv = "error"],
                   DFU_CLIENT_EVT_ERROR, "ENOTCONN", 0)}
    ELSE IF io = "closed" THEN {[s EXCEPT !.recv = "closed"]}
    ELSE IF s.rx_hdr = 0 THEN {[s EXCEPT !.recv = "EAGAIN"]}
    ELSE parse_response([s EXCEPT !.recv = "data"], frag)

\* Lines 226-242: the peek, and what each of its outcomes leads to.
peek(s, frag, io) ==
    IF io = "error"
    THEN {callback([unlink(s) EXCEPT !.status = DFU_CLIENT_ERROR,
                                     !.recv = "error"],
                   DFU_CLIENT_EVT_ERROR, "ENOTCONN", 0)}
    ELSE IF io = "closed"
    THEN {callback([unlink(s) EXCEPT !.status = DFU_CLIENT_ERROR,
                                     !.recv = "closed"],
                   DFU_CLIENT_EVT_ERROR, "ECONNRESET", 0)}
    ELSE IF s.rx_hdr = 0 THEN {[s EXCEPT !.recv = "EAGAIN"]}
    ELSE parse_response([s EXCEPT !.recv = "data"], frag)

\* process without the status test of line 222.
process_any_status(s, frag) ==
    IF s.fd < 0 THEN {s}
    ELSE UNION {peek(s, frag, io) : io \in RecvOutcomes(s)}

\* The states one call of dfu_client_process() can leave behind.
process(s, frag) ==
    IF s.fd < 0 \/ s.status # DFU_CLIENT_STATUS_DOWNLOAD_INPROGRESS THEN {s}
    ELSE UNION {peek(s, frag, io) : io \in RecvOutcomes(s)}


\* ------------------------------------------------------------------------
\* The server and the network between it and the session's socket.

\* The bytes of the image a request for `start` onwards is entitled to.
requested_bytes(start, frag, size) == Max(0, Min(frag, size - start))

\* The answers of a server that follows RFC 7233 for the image it holds; the
\* order of the header fields and the Connection field are its choice.
CompliantResponses(start, frag, size) ==
    [kind : {"resp"},
     order : {"range_first", "length_first"},
     total : {size},
     clen : {requested_bytes(start, frag, size)},
     conn : {"absent", "keep-alive", "close"}]

\* The answers of a server that may deviate: a total size that is not the
\* image's, a Content-Length that is the full fragment size although fewer
\* bytes remain, or one that is a byte short of the requested range.  Their
\* header arrives in one read (see HeaderReads), so the order of its fields
\* makes no difference and one order is tried.
DeviatingResponses(start, frag, size) ==
    [kind : {"resp"},
     order : {"range_first"},
     total : {size, size + 1},
     clen : {requested_bytes(start, frag, size),
             Max(0, requested_bytes(start, frag, size) - 1)}
              \cup {n \in {frag} : start + frag <= size + MaxOverrun * frag},
     conn : {"absent", "close"}]

Responses(env, start, frag, size) ==
    IF env = "well_behaved" THEN CompliantResponses(start, frag, size)
    ELSE IF env = "answering"
    THEN {r \in CompliantResponses(start, frag, size) : r.order = "range_first"}
    ELSE DeviatingResponses(start, frag, size)

\* ------------------------------------------------------------------------
\* The state after dfu_client_init() on a zeroed object, for every setup and
\* every offset the application may resume from.

InitSession ==
    /\ \E setup \in SetupsOf(environment) :
          /\ MAX_FRAGMENT_SIZE = setup.frag
          /\ MAX_REQUEST_SIZE = setup.req
          /\ image_size = setup.size
          /\ download_size \in {0} \cup {n \in {setup.frag} : n < setup.size}
    /\ fd = -1
    /\ status = DFU_CLIENT_STATUS_IDLE
    /\ firmware_size = 0
    /\ fragment_size = 0
    /\ open = {}
    /\ linked = {}
    /\ next_conn = 1
    /\ inflight = -1
    /\ response = NoResponse
    /\ rx_hdr = 0
    /\ rx_pay = 0
    /\ last = [op |-> "init", ret |-> 0, events |-> <<>>, requests |-> <<>>,
               opened |-> {}, closed |-> {}, recv |-> "none"]
    /\ history = <<>>
    /\ started_at = -1
    /\ faulted = FALSE

\* Any environment: the server may deviate, the transport may fail, the
\* application may refuse events.
Init == environment = "any" /\ InitSession

\* A well-behaved environment: the server answers every request as asked,
\* the transport does not fail, the application accepts every event.  How
\* the answers are cut into reads stays free.
InitWellBehaved == environment = "well_behaved" /\ InitSession

\* An answering environment: the server answers every request as asked and
\* in full, and send() and recv() do not fail on a live connection; the
\* application may refuse events and a reconnection may fail.
InitAnswering == environment = "answering" /\ InitSession

\* What the step records of the call that made it.
LabelOf(op, ret, s) ==
    [op |-> IF s.faulted THEN "fault" ELSE op, ret |-> ret,
     events |-> s.events, requests |-> s.requests,
     opened |-> s.opened, closed |-> s.closed, recv |-> s.recv]

Returns(op, ret, s) == last' = LabelOf(op, ret, s)

\* An event as the history keeps it: its kind, and the length of the fragment
\* it delivers.
Brief(evts) ==
    [i \in 1..Len(evts) |->
        [evt |-> evts[i].evt,
         size |-> IF evts[i].evt = DFU_CLIENT_EVT_DOWNLOAD_FRAG
                  THEN evts[i].size ELSE 0]]

Remembers(s, fresh) ==
    history' = IF environment # "well_behaved" THEN history
               ELSE IF fresh THEN Brief(s.events)
               ELSE history \o Brief(s.events)

Fixed ==
    UNCHANGED <<MAX_FRAGMENT_SIZE, MAX_REQUEST_SIZE, image_size, environment>>

\* The session takes `sock` as its connection; nothing is on that wire yet.
attach(s, sock) ==
    [s EXCEPT !.fd = sock, !.linked = @ \cap {sock}, !.inflight = -1,
              !.response = NoResponse, !.rx_hdr = 0, !.rx_pay = 0]

\* ------------------------------------------------------------------------
\* The public operations.

\* dfu_client_init(), on a session that holds no connection.
init(s) == [s EXCEPT !.fd = -1, !.status = DFU_CLIENT_STATUS_IDLE]

dfu_client_init ==
    /\ ~faulted
    /\ fd < 0
    /\ Becomes(init(State))
    /\ Returns("init", 0, State)
    /\ UNCHANGED <<history, started_at>>
    /\ Fixed

\* connect without the test of line 176.
connect_always(s, net) ==
    LET got == httpc_connect(s, net)
    IN  IF got.st.faulted \/ got.fd < 0 THEN [st |-> got.st, ret |-> -1]
        ELSE [st |-> [attach(got.st, got.fd)
                         EXCEPT !.status = DFU_CLIENT_STATUS_CONNECTED],
              ret |-> 0]

\* connect that gives up the connection it holds when a new one fails.
connect_failure_resets(s, net) ==
    IF s.fd # -1 /\ s.status = DFU_CLIENT_STATUS_CONNECTED
    THEN [st |-> s, ret |-> 0]
    ELSE
        LET got == httpc_connect(s, net)
        IN  IF got.st.faulted THEN [st |-> got.st, ret |-> -1]
            ELSE IF got.fd < 0
            THEN [st |-> [got.st EXCEPT !.fd = -1,
                                        !.status = DFU_CLIENT_STATUS_IDLE],
                  ret |-> -1]
            ELSE [st |-> [attach(got.st, got.fd)
                             EXCEPT !.status = DFU_CLIENT_STATUS_CONNECTED],
                  ret |-> 0]

\* dfu_client_connect(): the state left behind and the value returned.
connect(s, net) ==
    IF s.fd # -1 /\ s.status = DFU_CLIENT_STATUS_CONNECTED
    THEN [st |-> s, ret |-> 0]
    ELSE
        LET got == httpc_connect(s, net)
        IN  IF got.st.faulted \/ got.fd < 0 THEN [st |-> got.st, ret |-> -1]
            ELSE [st |-> [attach(got.st, got.fd)
                             EXCEPT !.status = DFU_CLIENT_STATUS_CONNECTED],
                  ret |-> 0]

dfu_client_connect ==
    /\ ~faulted
    /\ \E out \in {connect(State, net) : net \in NetInputs(State)} :
          Becomes(out.st) /\ Returns("connect", out.ret, out.st)
    /\ UNCHANGED <<history, started_at>>
    /\ Fixed

\* dfu_client_disconnect().
disconnect(s) ==
    IF s.fd < 0 THEN s
    ELSE [close(s, s.fd) EXCEPT !.fd = -1, !.status = DFU_CLIENT_STATUS_IDLE]

dfu_client_disconnect ==
    /\ ~faulted
    /\ Becomes(disconnect(State))
    /\ Returns("disconnect", 0, State)
    /\ UNCHANGED <<history, started_at>>
    /\ Fixed

\* download without the status test of line 210.
download_any_status(s, frag) ==
    IF s.fd < 0 THEN {[st |-> s, ret |-> -1]}
    ELSE fragment_request([s EXCEPT !.firmware_size = -1], frag, FALSE, FALSE)

\* dfu_client_download(): per outcome, the state left behind and the value
\* returned.
download(s, frag) ==
    IF s.fd < 0 \/ s.status # DFU_CLIENT_STATUS_CONNECTED
    THEN {[st |-> s, ret |-> -1]}
    ELSE fragment_request([s EXCEPT !.firmware_size = -1], frag, FALSE, FALSE)

dfu_client_download ==
    /\ ~faulted
    /\ \E out \in download(State, MAX_FRAGMENT_SIZE) :
          /\ Becomes(out.st)
          /\ Returns("download", out.ret, out.st)
          /\ IF fd < 0 \/ status # DFU_CLIENT_STATUS_CONNECTED
             THEN UNCHANGED <<history, started_at>>
             ELSE Remembers(out.st, TRUE) /\ started_at' = download_size
    /\ Fixed

\* dfu_client_process().
dfu_client_process ==
    /\ ~faulted
    /\ \E t \in process(State, MAX_FRAGMENT_SIZE) :
          Becomes(t) /\ Returns("process", 0, t) /\ Remembers(t, FALSE)
    /\ UNCHANGED started_at
    /\ Fixed

\* ------------------------------------------------------------------------
\* The environment.

\* The server answers the request in flight.
server_respond ==
    /\ ~faulted
    /\ inflight >= 0
    /\ fd \in linked
    /\ response' \in Responses(environment, inflight, MAX_FRAGMENT_SIZE, image_size)
    /\ inflight' = -1
    /\ rx_hdr' = 0
    /\ rx_pay' = 0
    /\ Returns("server", 0, State)
    /\ UNCHANGED <<fd, status, download_size, firmware_size, fragment_size,
                   open, linked, next_conn, faulted, history, started_at>>
    /\ Fixed

\* How much of the header the next read may find.  Every cut of the header
\* into reads is tried against the well-behaved server; the answers of the
\* deviating one arrive with their header in one read.
HeaderReads(env, got, hdr) ==
    IF env = "well_behaved" THEN {got + 1, hdr} ELSE {hdr}

\* More of the response reaches the socket: more of the header, then half of
\* the payload or all of it.
bytes_arrive ==
    /\ ~faulted
    /\ response.kind # "none"
    /\ fd \in linked
    /\ LET hdr == Len(HeaderText(response))
       IN  IF rx_hdr < hdr
           THEN rx_hdr' \in HeaderReads(environment, rx_hdr, hdr) /\ rx_pay' = rx_pay
           ELSE /\ rx_pay' \in {n \in {response.clen \div 2, response.clen} :
                                   n > rx_pay}
                /\ rx_hdr' = rx_hdr
    /\ Returns("network", 0, State)
    /\ UNCHANGED <<fd, status, download_size, firmware_size, fragment_size,
                   open, linked, next_conn, inflight, response, faulted,
                   history, started_at>>
    /\ Fixed

Next ==
    \/ dfu_client_init
    \/ dfu_client_connect
    \/ dfu_client_disconnect
    \/ dfu_client_download
    \/ dfu_client_process
    \/ server_respond
    \/ bytes_arrive

\* Any environment.
Spec == Init /\ [][Next]_vars

\* A well-behaved environment.
SpecWellBehaved == InitWellBehaved /\ [][Next]_vars

\* A caller that connects, starts one download and from then on only calls
\* dfu_client_process(), as the documentation of dfu_client_download() asks.
NextPolling ==
    \/ started_at < 0 /\ dfu_client_connect
    \/ started_at < 0 /\ dfu_client_download
    \/ dfu_client_process
    \/ server_respond
    \/ bytes_arrive

\* The part of a state that Becomes() sets.
SessionOf(s) ==
    <<s.fd, s.status, s.download_size, s.firmware_size, s.fragment_size,
      s.open, s.linked, s.next_conn, s.inflight, s.response, s.rx_hdr,
      s.rx_pay, s.faulted>>

\* Whether a call of dfu_client_process() can change anything: the session,
\* its connection, or the record of the last call.  This is
\* ENABLED <<dfu_client_process>>_vars, computed from the outcomes of
\* process().
ProcessCanAct ==
    /\ ~faulted
    /\ \E t \in process(State, MAX_FRAGMENT_SIZE) :
          \/ SessionOf(t) # SessionOf(State)
          \/ LabelOf("process", 0, t) # last
          \/ (environment = "well_behaved" /\ t.events # <<>>)

\* Weak fairness of dfu_client_process, with its enabling condition written
\* out: the caller keeps calling it while a call can change anything.
KeepsPolling ==
    \/ []<>(~ProcessCanAct)
    \/ []<><<dfu_client_process>>_vars

\* That caller in an answering environment: it keeps calling
\* dfu_client_process(), the server answers every request, and what it sent
\* arrives.
SpecPolling ==
    /\ InitAnswering
    /\ [][NextPolling]_vars
    /\ KeepsPolling
    /\ WF_vars(server_respond)
    /\ WF_vars(bytes_arrive)


\* ------------------------------------------------------------------------
\* What a step shows of the call that made it.

Raised(l, evt) == \E i \in 1..Len(l.events) : l.events[i].evt = evt

Accepted(l, evt) ==
    \E i \in 1..Len(l.events) : l.events[i].evt = evt /\ l.events[i].ret = 0

Refused(l, evt) ==
    \E i \in 1..Len(l.events) : l.events[i].evt = evt /\ l.events[i].ret # 0

\* The length of the fragment a call delivered.
DeliveredSize(l) ==
    LET i == CHOOSE i \in 1..Len(l.events) :
                 l.events[i].evt = DFU_CLIENT_EVT_DOWNLOAD_FRAG
    IN  l.events[i].size

IsPrefix(a, b) == Len(a) <= Len(b) /\ SubSeq(b, 1, Len(a)) = a

RECURSIVE SumSizes(_)
SumSizes(h) == IF h = <<>> THEN 0 ELSE h[1].size + SumSizes(Tail(h))

\* ------------------------------------------------------------------------
\* C1: with a server that answers every range request with exactly the
\* requested bytes and an application that accepts every event, a download
\* of F bytes started at offset 0 raises ceil(F/M) fragment events, each of M
\* bytes but the last of F - M*(ceil(F/M)-1), then one completion event, and
\* nothing else; download_size is the sum of the fragments delivered.

FragmentCount(F, M) == (F + M - 1) \div M

ExpectedRun(F, M) ==
    [i \in 1..(FragmentCount(F, M) + 1) |->
        IF i < FragmentCount(F, M)
        THEN [evt |-> DFU_CLIENT_EVT_DOWNLOAD_FRAG, size |-> M]
        ELSE IF i = FragmentCount(F, M)
        THEN [evt |-> DFU_CLIENT_EVT_DOWNLOAD_FRAG,
              size |-> F - M * (FragmentCount(F, M) - 1)]
        ELSE [evt |-> DFU_CLIENT_EVT_DOWNLOAD_DONE, size |-> 0]]

C1_RoundTrip ==
    (environment = "well_behaved" /\ started_at = 0) =>
        /\ IsPrefix(history, ExpectedRun(image_size, MAX_FRAGMENT_SIZE))
        /\ download_size = SumSizes(history)
        /\ (status = DFU_CLIENT_STATUS_DOWNLOAD_COMPLETE =>
               history = ExpectedRun(image_size, MAX_FRAGMENT_SIZE))

\* ------------------------------------------------------------------------
\* C2: whenever firmware_size is known, download_size <= firmware_size,
\* whatever the server answers and the application returns.

C2_DownloadedWithinFirmware ==
    firmware_size > 0 => download_size <= firmware_size

\* ------------------------------------------------------------------------
\* C3: a call of dfu_client_process() that finds the total size of a response
\* different from the firmware size it knows ends in status ERROR, raises an
\* error event, delivers no fragment of that response and sends no request.

FoundSizeChanged(l) ==
    \E i \in 1..Len(l.events) :
        l.events[i].evt = DFU_CLIENT_EVT_ERROR /\ l.events[i].code = "EFAULT"

C3_MismatchIsFatal ==
    [][(last'.op = "process" /\ FoundSizeChanged(last')) =>
          /\ status' = DFU_CLIENT_ERROR
          /\ ~Raised(last', DFU_CLIENT_EVT_DOWNLOAD_FRAG)
          /\ last'.requests = <<>>]_vars

\* ------------------------------------------------------------------------
\* C4: when the application refuses a fragment the session becomes HALTED
\* without download_size advancing and without a request being sent; and
\* while the status is HALTED no operation raises an event, sends a request
\* or changes download_size, and only the caller's dfu_client_connect() or
\* dfu_client_disconnect() ends the halt.

C4_RefusalHalts ==
    [][/\ (last'.op = "process"
            /\ Refused(last', DFU_CLIENT_EVT_DOWNLOAD_FRAG)) =>
              /\ status' = DFU_CLIENT_STATUS_HALTED
              /\ download_size' = download_size
              /\ last'.requests = <<>>
              /\ ~Raised(last', DFU_CLIENT_EVT_DOWNLOAD_DONE)
       /\ status = DFU_CLIENT_STATUS_HALTED =>
              /\ last'.events = <<>>
              /\ last'.requests = <<>>
              /\ download_size' = download_size
              /\ (status' # DFU_CLIENT_STATUS_HALTED =>
                     last'.op \in {"connect", "disconnect"})]_vars

\* dfu_client_process() has been called on a halted session.
C4_Witness ==
    /\ status = DFU_CLIENT_STATUS_HALTED
    /\ last.op = "process"
    /\ last.events = <<>>

\* ------------------------------------------------------------------------
\* C5: when the application accepts the last fragment and refuses the
\* completion event, download_size is what it was before the fragment, the
\* request for that fragment is sent again and the status is
\* DOWNLOAD_INPROGRESS.

C5_RefusedCompletionRetries ==
    [][(last'.op = "process"
        /\ Refused(last', DFU_CLIENT_EVT_DOWNLOAD_DONE)) =>
          /\ download_size' = download_size
          /\ status' = DFU_CLIENT_STATUS_DOWNLOAD_INPROGRESS
          /\ \E i \in 1..Len(last'.requests) :
                last'.requests[i].start = download_size]_vars

\* ------------------------------------------------------------------------
\* C6: with a firmware of 2500 bytes and fragments of 1024, when the
\* application refuses the completion event that follows the last, 452-byte
\* fragment, download_size is 2048 again and the request sent again asks
\* for ...
\* ... the bytes 2048-2499 (the claim as made);

RefusedDocCompletion ==
    /\ MAX_FRAGMENT_SIZE = 1024
    /\ firmware_size = 2500
    /\ last'.op = "process"
    /\ Refused(last', DFU_CLIENT_EVT_DOWNLOAD_DONE)
    /\ DeliveredSize(last') = 452

C6_RetryRangeAsClaimed ==
    [][RefusedDocCompletion =>
          /\ download_size' = 2048
          /\ \A i \in 1..Len(last'.requests) :
                last'.requests[i].start = 2048 /\ last'.requests[i].end = 2499]_vars

\* ... the bytes 2048-3071, a full fragment from the offset (the claim as
\* amended): the same range as the request that was refused.
C6_RetryRange ==
    [][RefusedDocCompletion =>
          /\ download_size = 2048
          /\ download_size' = 2048
          /\ \A i \in 1..Len(last'.requests) :
                last'.requests[i].start = 2048 /\ last'.requests[i].end = 3071]_vars

\* The completion was refused and the request went out again.
C6_Witness ==
    /\ MAX_FRAGMENT_SIZE = 1024
    /\ firmware_size = 2500
    /\ last.op = "process"
    /\ Refused(last, DFU_CLIENT_EVT_DOWNLOAD_DONE)
    /\ download_size = 2048
    /\ Len(last.requests) = 1
    /\ last.requests[1].sent
    /\ inflight = 2048

\* ------------------------------------------------------------------------
\* C7: after an accepted fragment that does not end the download, the next
\* request asks for the bytes from download_size on, which has advanced by
\* the length of the fragment.  When the response said "Connection: close"
\* the old socket is closed and the request goes out on a socket opened in
\* the same call; otherwise it goes out on the socket the response came on.

NextFragmentStep ==
    /\ last'.op = "process"
    /\ Accepted(last', DFU_CLIENT_EVT_DOWNLOAD_FRAG)
    /\ ~Raised(last', DFU_CLIENT_EVT_DOWNLOAD_DONE)

C8_DisconnectIdles ==
    last.op = "disconnect" => (fd = -1 /\ status = DFU_CLIENT_STATUS_IDLE)

\* ------------------------------------------------------------------------
\* C9: dfu_client_connect() on a session that is CONNECTED and holds a
\* connection returns 0, opens and closes no socket and leaves fd, status,
\* download_size and firmware_size as they are.

C9_ConnectIdempotent ==
    [][(last'.op = "connect"
        /\ status = DFU_CLIENT_STATUS_CONNECTED /\ fd # -1) =>
          /\ last'.ret = 0
          /\ last'.opened = {}
          /\ last'.closed = {}
          /\ last'.events = <<>>
          /\ UNCHANGED <<fd, status, download_size, firmware_size, open,
                         next_conn>>]_vars

\* dfu_client_connect() has returned 0 without opening a socket.
C9_Witness ==
    /\ last.op = "connect"
    /\ last.ret = 0
    /\ last.opened = {}
    /\ status = DFU_CLIENT_STATUS_CONNECTED
    /\ fd \in open

\* ------------------------------------------------------------------------
\* C10: a dfu_client_connect() that obtains no connection returns -1, and a
\* dfu_client_connect() that returns -1 raises no event, leaves no socket
\* open and leaves status, fd, download_size and firmware_size as they were.

C10_FailedConnectChangesNothing ==
    [][last'.op = "connect" =>
          /\ (last'.opened = {}
               /\ ~(status = DFU_CLIENT_STATUS_CONNECTED /\ fd # -1)) =>
                 last'.ret = -1
          /\ last'.ret = -1 =>
                 /\ last'.events = <<>>
                 /\ last'.opened = {}
                 /\ UNCHANGED <<fd, status, download_size, firmware_size,
                                open>>]_vars

\* A connect failed on a session that was in the middle of a download.
C10_Witness ==
    /\ last.op = "connect"
    /\ last.ret = -1
    /\ status = DFU_CLIENT_STATUS_DOWNLOAD_INPROGRESS
    /\ fd \in open

\* ------------------------------------------------------------------------
\* C11: dfu_client_download() on a session whose status is not CONNECTED or
\* that holds no connection returns -1, sends no request, raises no event
\* and leaves status, firmware_size, download_size and fd as they are.

C11_DownloadNeedsConnected ==
    [][(last'.op = "download"
        /\ (status # DFU_CLIENT_STATUS_CONNECTED \/ fd < 0)) =>
          /\ last'.ret = -1
          /\ last'.requests = <<>>
          /\ last'.events = <<>>
          /\ UNCHANGED <<status, firmware_size, download_size, fd, inflight,
                         open>>]_vars

\* dfu_client_download() has been refused on a halted session that still
\* holds its connection.
C11_Witness ==
    /\ last.op = "download"
    /\ last.ret = -1
    /\ last.requests = <<>>
    /\ status = DFU_CLIENT_STATUS_HALTED
    /\ fd \in open

\* ------------------------------------------------------------------------
\* C12: dfu_client_download() returns 0 when the first request was built and
\* sent on the connection, and -1 otherwise; it returns nothing else.

C12_DownloadReturnsZeroOrMinusOne ==
    last.op = "download" =>
        last.ret = IF \E i \in 1..Len(last.requests) : last.requests[i].sent
                   THEN 0 ELSE -1

\* ------------------------------------------------------------------------
\* C13: when the formatted request is longer than the request buffer,
\* dfu_client_download() returns -1, passes nothing to send() and leaves the
\* status as it is.

C13_LongRequestNotSent ==
    [][(last'.op = "download"
        /\ status = DFU_CLIENT_STATUS_CONNECTED /\ fd >= 0
        /\ ~fits(State, MAX_FRAGMENT_SIZE)) =>
          /\ last'.ret = -1
          /\ last'.requests = <<>>
          /\ status' = status]_vars

\* ------------------------------------------------------------------------
\* C14: dfu_client_process() reads only in status DOWNLOAD_INPROGRESS on a
\* session that holds a connection, and there always.  When the read fails
\* with an error other than EAGAIN or finds the connection closed, the call
\* ends in status ERROR after exactly one error event, with download_size and
\* firmware_size unchanged and no request sent; when the read finds no data
\* (EAGAIN) the call changes nothing and raises no event.

C14_ReadFailureIsError ==
    [][last'.op = "process" =>
          /\ (last'.recv # "none") <=>
                (status = DFU_CLIENT_STATUS_DOWNLOAD_INPROGRESS /\ fd >= 0)
          /\ last'.recv \in {"error", "closed"} =>
                /\ status' = DFU_CLIENT_ERROR
                /\ Len(last'.events) = 1
                /\ last'.events[1].evt = DFU_CLIENT_EVT_ERROR
                /\ last'.requests = <<>>
                /\ UNCHANGED <<download_size, firmware_size, fd>>
          /\ last'.recv = "EAGAIN" =>
                /\ last'.events = <<>>
                /\ last'.requests = <<>>
                /\ UNCHANGED <<status, download_size, firmware_size, fd,
                               fragment_size, open, response, rx_hdr,
                               rx_pay>>]_vars

\* In the middle of a download the peer closed the connection and the call
\* ended in ERROR.
C14_Witness ==
    /\ last.op = "process"
    /\ last.recv = "closed"
    /\ status = DFU_CLIENT_ERROR
    /\ started_at >= 0
    /\ download_size > started_at

\* ------------------------------------------------------------------------
\* C15: a call of dfu_client_process() that reads a response whose header
\* has not arrived whole raises no event and leaves status, firmware_size and
\* download_size as they are; and however the responses of a well-behaved
\* server are split over reads, no call ends in status ERROR.

HeaderArrived == response.kind = "resp" /\ rx_hdr = Len(HeaderText(response))

HeaderIncomplete == response.kind = "resp" /\ rx_hdr < Len(HeaderText(response))

C15_PartialHeaderWaits ==
    [][last'.op = "process" =>
          /\ environment = "well_behaved" => status' # DFU_CLIENT_ERROR
          /\ (last'.recv = "data" /\ HeaderIncomplete) =>
                /\ last'.events = <<>>
                /\ UNCHANGED <<status, firmware_size, download_size>>]_vars

\* ------------------------------------------------------------------------
\* C16: a response whose Content-Length is neither the maximum fragment size
\* nor firmware_size - download_size is not delivered: the call that reads it
\* raises no fragment and no completion event, sends no request and leaves
\* download_size unchanged, and ...

\* The firmware size the length is compared with at line 298: the one
\* known, or the one this response makes known.
KnownSize == IF firmware_size = -1 THEN response.total ELSE firmware_size

OddLength ==
    /\ HeaderArrived
    /\ response.clen # MAX_FRAGMENT_SIZE
    /\ download_size + response.clen # KnownSize

\* ... leaves the status unchanged (the claim as made);
C16_OddLengthIgnoredAsClaimed ==
    [][(last'.op = "process" /\ last'.recv = "data" /\ OddLength) =>
          /\ ~Raised(last', DFU_CLIENT_EVT_DOWNLOAD_FRAG)
          /\ ~Raised(last', DFU_CLIENT_EVT_DOWNLOAD_DONE)
          /\ last'.requests = <<>>
          /\ UNCHANGED <<download_size, status>>]_vars

\* ... leaves the status unchanged and raises no event at all if the total
\* size of the response is the firmware size known, and otherwise ends in
\* status ERROR after one error event (the claim as amended).
C16_OddLengthIgnored ==
    [][(last'.op = "process" /\ last'.recv = "data" /\ OddLength) =>
          /\ ~Raised(last', DFU_CLIENT_EVT_DOWNLOAD_FRAG)
          /\ ~Raised(last', DFU_CLIENT_EVT_DOWNLOAD_DONE)
          /\ last'.requests = <<>>
          /\ UNCHANGED <<download_size, fd, response, rx_hdr, rx_pay>>
          /\ IF response.total = KnownSize
             THEN last'.events = <<>> /\ status' = status
             ELSE /\ Len(last'.events) = 1
                  /\ FoundSizeChanged(last')
                  /\ status' = DFU_CLIENT_ERROR]_vars

\* A response of odd length has arrived whole, payload included, with the
\* total size the session knows; dfu_client_process() read it and did nothing.
C16_Witness ==
    /\ last.op = "process"
    /\ last.recv = "data"
    /\ OddLength
    /\ rx_pay = response.clen
    /\ response.total = firmware_size
    /\ status = DFU_CLIENT_STATUS_DOWNLOAD_INPROGRESS
    /\ last.events = <<>>

\* ------------------------------------------------------------------------
\* C17: a fragment event is raised only by a call that finds exactly
\* Content-Length bytes behind the header, and its fragment_size is that
\* Content-Length; a call that finds fewer raises no fragment and no
\* completion event, sends no request, leaves download_size unchanged, and ...

PayloadIncomplete == HeaderArrived /\ rx_pay < response.clen

\* ... changes no state and raises no event (the claim as made);
C17_ExactPayloadAsClaimed ==
    [][last'.op = "process" =>
          /\ Raised(last', DFU_CLIENT_EVT_DOWNLOAD_FRAG) =>
                /\ HeaderArrived
                /\ rx_pay = response.clen
                /\ DeliveredSize(last') = response.clen
          /\ (last'.recv = "data" /\ PayloadIncomplete) =>
                /\ last'.events = <<>>
                /\ last'.requests = <<>>
                /\ UNCHANGED <<status, download_size, firmware_size, fd>>]_vars

\* ... changes nothing but firmware_size, which it learns from the header if
\* it was not known, unless the total size differs from the one known: then
\* it ends in status ERROR after one error event (the claim as amended).
C17_ExactPayload ==
    [][last'.op = "process" =>
          /\ Raised(last', DFU_CLIENT_EVT_DOWNLOAD_FRAG) =>
                /\ HeaderArrived
                /\ rx_pay = response.clen
                /\ DeliveredSize(last') = response.clen
          /\ (last'.recv = "data" /\ PayloadIncomplete) =>
                /\ ~Raised(last', DFU_CLIENT_EVT_DOWNLOAD_FRAG)
                /\ ~Raised(last', DFU_CLIENT_EVT_DOWNLOAD_DONE)
                /\ last'.requests = <<>>
                /\ UNCHANGED <<download_size, fd, response, rx_hdr, rx_pay>>
                /\ firmware_size' = KnownSize
                /\ IF response.total = KnownSize
                   THEN last'.events = <<>> /\ status' = status
                   ELSE /\ Len(last'.events) = 1
                        /\ FoundSizeChanged(last')
                        /\ status' = DFU_CLIENT_ERROR]_vars

\* Half of the payload of an acceptable fragment has arrived;
\* dfu_client_process() read it and waits.
C17_Witness ==
    /\ last.op = "process"
    /\ last.recv = "data"
    /\ PayloadIncomplete
    /\ rx_pay > 0
    /\ response.clen = MAX_FRAGMENT_SIZE
    /\ last.events = <<>>
    /\ status = DFU_CLIENT_STATUS_DOWNLOAD_INPROGRESS

\* ------------------------------------------------------------------------
\* C18: download_size changes only in a call of dfu_client_process() in which
\* the application accepts a fragment.  It then grows by the Content-Length
\* of that fragment, unless the application refuses the completion event
\* that follows, which takes the same amount off again.  So it never
\* decreases from one call to the next, and is the offset the download
\* started at plus the Content-Lengths of the fragments accepted and not
\* rolled back.  (A call that stops the program in httpc_connect() is
\* labelled "fault"; the fragment it accepted before is counted all the same.)

C18_DownloadSizeIsSumOfAccepted ==
    [][/\ download_size' >= download_size
       /\ download_size' # download_size =>
             /\ last'.op \in {"process", "fault"}
             /\ Accepted(last', DFU_CLIENT_EVT_DOWNLOAD_FRAG)
       /\ (last'.op \in {"process", "fault"}
           /\ Accepted(last', DFU_CLIENT_EVT_DOWNLOAD_FRAG)) =>
             download_size' =
                IF Refused(last', DFU_CLIENT_EVT_DOWNLOAD_DONE)
                THEN download_size
                ELSE download_size + response.clen]_vars

\* A short last fragment was accepted and counted with its own length.
C18_Witness ==
    /\ last.op = "process"
    /\ Accepted(last, DFU_CLIENT_EVT_DOWNLOAD_FRAG)
    /\ Accepted(last, DFU_CLIENT_EVT_DOWNLOAD_DONE)
    /\ DeliveredSize(last) < MAX_FRAGMENT_SIZE
    /\ started_at >= 0
    /\ download_size > started_at + DeliveredSize(last)

\* ------------------------------------------------------------------------
\* C19: httpc_connect() returns a socket only when a connect() to a resolved
\* candidate of the AF_INET family succeeded on it, and returns -1 otherwise,
\* leaving no socket open; it always returns.  Seen from
\* dfu_client_connect(): the program has not stopped, and a call that opened
\* a socket and returned 0 left the session with a live connection.

C19_SocketOnlyIfConnected ==
    /\ ~faulted
    /\ (last.op = "connect" /\ last.opened # {}) =>
          (last.ret = 0 /\ fd \in last.opened /\ fd \in linked)

\* ------------------------------------------------------------------------
\* C20: every request passed to send() is the whole formatted request, with
\* Range start equal to download_size and Range end equal to
\* download_size + CONFIG_NRF_DFU_HTTP_MAX_FRAGMENT_SIZE - 1, and
\* dfu_client_download() leaves download_size as the caller set it.

C20_RangeOfEveryRequest ==
    [][/\ \A i \in 1..Len(last'.requests) :
             /\ last'.requests[i].whole
             /\ last'.requests[i].start = download_size'
             /\ last'.requests[i].end = download_size' + MAX_FRAGMENT_SIZE - 1
       /\ last'.op = "download" => download_size' = download_size]_vars

\* ------------------------------------------------------------------------
\* C22: while the program runs, the status is CONNECTED, DOWNLOAD_INPROGRESS
\* or DOWNLOAD_COMPLETE only if fd >= 0, and the status is IDLE exactly when
\* fd = -1.

C22_StatusMatchesConnection ==
    ~faulted =>
        /\ status \in {DFU_CLIENT_STATUS_CONNECTED,
                        DFU_CLIENT_STATUS_DOWNLOAD_INPROGRESS,
                        DFU_CLIENT_STATUS_DOWNLOAD_COMPLETE} => fd >= 0
        /\ (status = DFU_CLIENT_STATUS_IDLE) <=> (fd = -1)

\* ------------------------------------------------------------------------
\* C23: when dfu_client_process() has returned and the status is
\* DOWNLOAD_COMPLETE, download_size = firmware_size.

C23_CompleteMeansAllDownloaded ==
    (last.op = "process" /\ status = DFU_CLIENT_STATUS_DOWNLOAD_COMPLETE) =>
        download_size = firmware_size

\* ------------------------------------------------------------------------
\* C24: an operation that raised an error event returns with status ERROR
\* and has passed no request to send().  (Within one operation every send()
\* comes after every event, so a request of the operation is a request sent
\* after the error event.)

C24_ErrorEventMeansErrorStatus ==
    [][(last'.op \in {"process", "download"}
        /\ Raised(last', DFU_CLIENT_EVT_ERROR)) =>
          /\ status' = DFU_CLIENT_ERROR
          /\ last'.requests = <<>>]_vars

\* ------------------------------------------------------------------------
\* C25: dfu_client_process() on a session whose status is not
\* DOWNLOAD_INPROGRESS, or that holds no connection, reads nothing, raises no
\* event, sends no request and changes nothing of the session or of its
\* connection; so once the status is DOWNLOAD_COMPLETE no operation raises a
\* fragment or completion event.

C25_ProcessOnlyInProgress ==
    [][/\ (last'.op = "process"
           /\ (status # DFU_CLIENT_STATUS_DOWNLOAD_INPROGRESS \/ fd < 0)) =>
             /\ last'.recv = "none"
             /\ last'.events = <<>>
             /\ last'.requests = <<>>
             /\ last'.opened = {} /\ last'.closed = {}
             /\ UNCHANGED <<fd, status, download_size, firmware_size,
                            fragment_size, open, linked, inflight, response,
                            rx_hdr, rx_pay>>
       /\ status = DFU_CLIENT_STATUS_DOWNLOAD_COMPLETE =>
             /\ ~Raised(last', DFU_CLIENT_EVT_DOWNLOAD_FRAG)
             /\ ~Raised(last', DFU_CLIENT_EVT_DOWNLOAD_DONE)]_vars

\* dfu_client_process() has been called after the completion event was
\* accepted, with the connection still open.
C25_Witness ==
    /\ last.op = "process"
    /\ last.recv = "none"
    /\ status = DFU_CLIENT_STATUS_DOWNLOAD_COMPLETE
    /\ download_size = firmware_size
    /\ fd \in linked

\* ------------------------------------------------------------------------
\* C26: while the program runs, the only socket the engine has opened and
\* not closed is the one dfu->fd refers to.

C26_NoSocketLeft ==
    ~faulted => open \subseteq {fd}

\* ------------------------------------------------------------------------
\* C21, under SpecPolling.

\* dfu_client_download() has sent the first request.
DownloadStarted ==
    /\ last.op = "download"
    /\ \E i \in 1..Len(last.requests) : last.requests[i].sent

DownloadEnded ==
    \/ Raised(last, DFU_CLIENT_EVT_DOWNLOAD_DONE)
    \/ Raised(last, DFU_CLIENT_EVT_ERROR)
    \/ status = DFU_CLIENT_STATUS_HALTED

\* C21: in an answering environment with a caller that keeps calling
\* dfu_client_process(), a download that was started leads to a completion
\* event, an error event or status HALTED; and the status does not stay
\* DOWNLOAD_INPROGRESS for ever.  The second half is taken in the claim's
\* favour: a session whose completion event is refused and offered again,
\* round after round, is not counted as staying in DOWNLOAD_INPROGRESS.
C21_DownloadEnds ==
    /\ DownloadStarted ~> DownloadEnded
    /\ []<>(\/ status # DFU_CLIENT_STATUS_DOWNLOAD_INPROGRESS
            \/ Raised(last, DFU_CLIENT_EVT_DOWNLOAD_DONE))

=============================================================================
